---- MODULE Spec2Model ----
(***************************************************************************)
(* Symbol reordering task generator (src/src/generator.py, config.py).     *)
(*                                                                         *)
(* Three specifications over one set of variables:                         *)
(*   Spec      TaskGenerator._generate_task_data, statement by statement   *)
(*             around its shuffle loop;                                    *)
(*   SpecPair  TaskGenerator.__init__ and generate_task_pair;              *)
(*   SpecAnim  TaskGenerator._create_reordering_animation.                 *)
(*                                                                         *)
(* Sequences are 1-indexed here and 0-indexed in the source: slot p of the *)
(* source is index p+1 of a tuple.  An image is modelled by the list of    *)
(* glyphs drawn on it, in drawing order.                                   *)
(***************************************************************************)
EXTENDS Integers, Sequences, FiniteSets, TLC

VARIABLES
    pc,                 \* position of the running method
    num_symbols,        \* local of _generate_task_data
    symbol_type,        \* local of _generate_task_data
    symbols,            \* local of _generate_task_data
    initial_sequence,   \* local of _generate_task_data
    target_sequence,    \* local of _generate_task_data
    attempts,           \* local of _generate_task_data
    forced_swap,        \* whether line 129 has been executed
    task_data,          \* the record returned by _generate_task_data
    generate_videos,    \* config.generate_videos
    backend_available,  \* what VideoGenerator.is_available() answers
    video_generator,    \* self.video_generator
    sink_result,        \* what create_video_from_frames returned
    raised,             \* whether an exception left the method
    first_image,        \* TaskPair.first_image
    final_image,        \* TaskPair.final_image
    ground_truth_video, \* TaskPair.ground_truth_video
    hold_frames,        \* argument of _create_reordering_animation
    transition_frames,  \* argument of _create_reordering_animation
    symbol_to_target_pos, \* local of _create_reordering_animation
    frames              \* the list returned by _create_reordering_animation

genVars == <<num_symbols, symbol_type, symbols, initial_sequence,
             target_sequence, attempts, forced_swap>>
pairVars == <<generate_videos, backend_available, video_generator, sink_result,
              raised, first_image, final_image, ground_truth_video>>
animVars == <<hold_frames, transition_frames, symbol_to_target_pos, frames>>
vars == <<pc, task_data, genVars, pairVars, animVars>>

----------------------------------------------------------------------------
(* Program constants *)

MinSymbols == 3
MaxSymbols == 8
MaxAttempts == 100
ImageWidth == 800
ImageHeight == 200
SymbolSize == 80
SymbolSpacing == 120
DefaultHoldFrames == 10
DefaultTransitionFrames == 30

(* Bounds of the model *)

\* random.shuffle yields every permutation for lists up to this length, and
\* a family of permutations (ShuffleFamily) for longer ones
FullShuffleMax == 4
\* hold_frames ranges over 0..MaxHold
MaxHold == 2
\* transition_frames ranges over 0..MaxTrans
MaxTrans == 3

\* Python's None
None == "<None>"
\* the label slot of a glyph drawn without a label
NoLabel == "<no label>"

----------------------------------------------------------------------------
(* Vocabulary registry: _init_symbol_sets *)

Letters ==
    <<"A", "B", "C", "D", "E", "F", "G", "H", "I", "J", "K", "L", "M",
      "N", "O", "P", "Q", "R", "S", "T", "U", "V", "W", "X", "Y", "Z">>

Numbers == <<"0", "1", "2", "3", "4", "5", "6", "7", "8", "9">>

Shapes ==
    <<"circle", "square", "triangle", "diamond", "star", "pentagon",
      "hexagon", "heart">>

ColorsShort ==
    <<"red", "blue", "green", "yellow", "purple", "orange", "pink">>

Colors ==
    <<"red", "blue", "green", "yellow", "purple", "orange", "pink", "cyan">>

SymbolSets ==
    [letters |-> Letters, numbers |-> Numbers, shapes |-> Shapes,
     colors |-> Colors]

SymbolTypes == <<"shapes", "letters", "numbers", "colors", "mixed">>

\* self.symbol_sets.get(symbol_type, self.symbol_sets["shapes"])
AvailableSymbols(type) ==
    IF type \in DOMAIN SymbolSets THEN SymbolSets[type] ELSE SymbolSets["shapes"]

----------------------------------------------------------------------------
(* Helpers on sequences *)

Min(a, b) == IF a <= b THEN a ELSE b

Range(seq) == {seq[i] : i \in DOMAIN seq}

NoDuplicates(seq) ==
    \A i, j \in DOMAIN seq : i # j => seq[i] # seq[j]

\* list(range(n))
Identity(n) == [i \in 1..n |-> i - 1]

\* seq[i], seq[j] = seq[j], seq[i], with i and j the source's 0-based indexes
SwapAt(seq, i, j) ==
    [p \in DOMAIN seq |->
        IF p = i + 1 THEN seq[j + 1] ELSE IF p = j + 1 THEN seq[i + 1] ELSE seq[p]]

\* pool[:k]
Prefix(pool, k) == [i \in 1..k |-> pool[i]]

\* the last k entries of pool, last first
ReversedSuffix(pool, k) == [i \in 1..k |-> pool[Len(pool) - i + 1]]

\* random.sample(pool, k): k entries of pool at pairwise different indexes,
\* in some order.  The outcomes enumerated are the first k entries in order
\* and the last k entries in reverse order.  k > len(pool) raises ValueError
\* in Python; the callers cap k.
RandomSample(pool, k) ==
    {Prefix(pool, k), ReversedSuffix(pool, k)}

----------------------------------------------------------------------------
(* random.shuffle *)

AllPermutations(n) ==
    {s \in [1..n -> 0..(n - 1)] : NoDuplicates(s)}

\* identity, every transposition, every rotation, and the reversal
ShuffleFamily(n) ==
    {Identity(n)}
    \cup {SwapAt(Identity(n), i, j) : i, j \in 0..(n - 1)}
    \cup {[p \in 1..n |-> (p - 1 + k) % n] : k \in 1..(n - 1)}
    \cup {[p \in 1..n |-> n - p]}

ShuffleOutcomes(n) ==
    IF n <= FullShuffleMax THEN AllPermutations(n) ELSE ShuffleFamily(n)

\* the outcomes of random.shuffle for each list length, computed once
ShuffleTable == [n \in MinSymbols..MaxSymbols |-> ShuffleOutcomes(n)]

----------------------------------------------------------------------------
(* _generate_task_data *)

\* random.randint(3, 8)
NumSymbolsChoices == MinSymbols..MaxSymbols

MixedPoolWide ==
    Prefix(Letters, 4) \o Prefix(Numbers, 4) \o Prefix(Shapes, 4)

\* all_symbols of _generate_mixed_symbols
MixedPool ==
    Prefix(SymbolSets["letters"], 3) \o Prefix(SymbolSets["numbers"], 3)
        \o Prefix(SymbolSets["shapes"], 3)

GenerateMixedSymbols(n) ==
    RandomSample(MixedPool, Min(n, Len(MixedPool)))

\* lines 107-113: the possible values of symbols
SymbolChoices(type, n) ==
    IF type = "mixed"
    THEN GenerateMixedSymbols(n)
    ELSE RandomSample(AvailableSymbols(type), Min(n, Len(AvailableSymbols(type))))

ForceSwapNoop(seq, n) == seq

ForceSwapLastTwo(seq, n) ==
    IF n >= 2 THEN SwapAt(seq, n - 2, n - 1) ELSE seq

\* lines 128-129
ForceSwap(seq, n) ==
    IF n >= 2 THEN SwapAt(seq, 0, 1) ELSE seq

MkTaskData(syms, type, init, target, n, labels) ==
    [symbols |-> syms, symbol_type |-> type, initial_sequence |-> init,
     target_sequence |-> target, num_symbols |-> n, use_labels |-> labels]

NoTaskData == MkTaskData(<<>>, None, <<>>, <<>>, 0, FALSE)

\* lines 119-129: the values target_sequence can have when the method returns:
\* the first shuffle outcome that differs from the identity, or the identity
\* with its forced swap
TargetOutcomes(n) ==
    (ShuffleTable[n] \ {Identity(n)}) \cup {ForceSwap(Identity(n), n)}

\* every record _generate_task_data can return
TaskDataOutcomes ==
    UNION {UNION {
        {MkTaskData(syms, type, Identity(n), target, n, labels) :
            syms \in SymbolChoices(type, n),
            target \in TargetOutcomes(n),
            labels \in BOOLEAN}
        : type \in Range(SymbolTypes)} : n \in NumSymbolsChoices}

----------------------------------------------------------------------------
(* Spec: _generate_task_data, lines 96-141 *)

IdlePair ==
    /\ generate_videos = FALSE
    /\ backend_available = FALSE
    /\ video_generator = None
    /\ sink_result = None
    /\ raised = FALSE
    /\ first_image = <<>>
    /\ final_image = <<>>
    /\ ground_truth_video = None

IdleAnim ==
    /\ hold_frames = 0
    /\ transition_frames = 0
    /\ symbol_to_target_pos = <<>>
    /\ frames = <<>>

IdleGen ==
    /\ num_symbols = 0
    /\ symbol_type = None
    /\ symbols = <<>>
    /\ initial_sequence = <<>>
    /\ target_sequence = <<>>
    /\ attempts = 0
    /\ forced_swap = FALSE

Init ==
    /\ pc = "start"
    /\ task_data = NoTaskData
    /\ IdleGen
    /\ IdlePair
    /\ IdleAnim

\* lines 100-120: cardinality, symbol type, symbols, both sequences
BeginTaskData ==
    /\ pc = "start"
    /\ \E n \in NumSymbolsChoices, t \in DOMAIN SymbolTypes :
        \E syms \in SymbolChoices(SymbolTypes[t], n) :
            /\ num_symbols' = n
            /\ symbol_type' = SymbolTypes[t]
            /\ symbols' = syms
            /\ initial_sequence' = Identity(n)
            /\ target_sequence' = Identity(n)
    /\ attempts' = 0
    /\ pc' = "loop"
    /\ UNCHANGED <<forced_swap, task_data, pairVars, animVars>>

LoopConditionOffByOne ==
    target_sequence = initial_sequence /\ attempts <= MaxAttempts

\* line 121
LoopCondition ==
    target_sequence = initial_sequence /\ attempts < MaxAttempts

\* lines 121-123: one iteration of the loop
ShuffleAttempt ==
    /\ pc = "loop"
    /\ LoopCondition
    /\ target_sequence' \in ShuffleTable[num_symbols]
    /\ attempts' = attempts + 1
    /\ UNCHANGED <<pc, num_symbols, symbol_type, symbols, initial_sequence,
                   forced_swap, task_data, pairVars, animVars>>

\* lines 126-141: the loop has ended; forced swap, use_labels, return
FinishTaskData ==
    /\ pc = "loop"
    /\ ~LoopCondition
    /\ LET swap == target_sequence = initial_sequence
           target == IF swap THEN ForceSwap(target_sequence, num_symbols)
                             ELSE target_sequence
       IN /\ target_sequence' = target
          /\ forced_swap' = swap
          /\ \E labels \in BOOLEAN :
                task_data' = MkTaskData(symbols, symbol_type, initial_sequence,
                                        target, num_symbols, labels)
    /\ pc' = "returned"
    /\ UNCHANGED <<num_symbols, symbol_type, symbols, initial_sequence, attempts,
                   pairVars, animVars>>

Next ==
    \/ BeginTaskData
    \/ ShuffleAttempt
    \/ FinishTaskData

Spec == Init /\ [][Next]_vars

\* the method runs on one thread with nothing to wait for: a statement that
\* can execute does
SpecLive == Spec /\ WF_vars(Next)

----------------------------------------------------------------------------
(* _render_state, lines 155-184 *)

\* lines 167-168: (width - total_width) // 2, with len(symbols) symbols
StartX(n) ==
    (ImageWidth - ((n - 1) * SymbolSpacing + SymbolSize)) \div 2

\* line 169
CenterY == ImageHeight \div 2

\* line 174
GlyphY == CenterY - SymbolSize \div 2

DecimalDigits == <<"0", "1", "2", "3", "4", "5", "6", "7", "8", "9">>

\* str(i) for a slot index, which is below 10
Str(i) == DecimalDigits[i + 1]

\* one _draw_symbol call and the _draw_label call that may follow it
Glyph(symbol, x, y, label) ==
    [symbol |-> symbol, x |-> x, y |-> y, label |-> label]

RenderStateByPosition(sequence, td) ==
    [p \in 1..Len(sequence) |->
        Glyph(td.symbols[p],
              StartX(Len(td.symbols)) + (p - 1) * SymbolSpacing,
              GlyphY,
              IF td.use_labels THEN Str(p - 1) ELSE NoLabel)]

\* the image: for position_idx, symbol_idx in enumerate(sequence)
RenderState(sequence, td) ==
    [p \in 1..Len(sequence) |->
        Glyph(td.symbols[sequence[p] + 1],
              StartX(Len(td.symbols)) + (p - 1) * SymbolSpacing,
              GlyphY,
              IF td.use_labels THEN Str(p - 1) ELSE NoLabel)]

----------------------------------------------------------------------------
(* _create_reordering_animation, lines 396-468 *)

SymbolToTargetPosNotInverted(target) ==
    [s \in 0..(Len(target) - 1) |-> target[s + 1]]

\* lines 427-429: a dict filled in slot order, a later slot overwriting an
\* earlier one with the same symbol index
SymbolToTargetPos(target) ==
    [s \in Range(target) |->
        (CHOOSE p \in DOMAIN target :
            /\ target[p] = s
            /\ \A q \in DOMAIN target : target[q] = s => q <= p) - 1]

\* int() of a quotient: truncation toward zero
TruncDiv(num, den) ==
    IF num >= 0 THEN num \div den ELSE -((-num) \div den)

\* line 433: progress is ProgressNum / ProgressDen
ProgressNum(frame_idx, trans) == IF trans > 1 THEN frame_idx ELSE 1

ProgressDenOffByOne(trans) == IF trans > 1 THEN trans ELSE 1

ProgressDen(trans) == IF trans > 1 THEN trans - 1 ELSE 1

\* line 446: int(initial_x + (target_x - initial_x) * progress).  The float
\* product is exact at progress 0.0 and 1.0; between them the quotient is
\* taken exactly here.
CurrentX(initial_x, target_x, frame_idx, trans) ==
    TruncDiv(initial_x * ProgressDen(trans)
                + (target_x - initial_x) * ProgressNum(frame_idx, trans),
             ProgressDen(trans))

TransitionFrameSlotLabel(td, map, frame_idx, trans) ==
    [i \in 1..Len(td.initial_sequence) |->
        LET symbol_idx == td.initial_sequence[i]
            target_pos == map[symbol_idx]
            start_x == StartX(Len(td.symbols))
            initial_x == start_x + (i - 1) * SymbolSpacing
            target_x == start_x + target_pos * SymbolSpacing
        IN Glyph(td.symbols[symbol_idx + 1],
                 CurrentX(initial_x, target_x, frame_idx, trans),
                 GlyphY,
                 IF td.use_labels THEN Str(i - 1) ELSE NoLabel)]

\* lines 436-461: the frame of step frame_idx
TransitionFrame(td, map, frame_idx, trans) ==
    [i \in 1..Len(td.initial_sequence) |->
        LET symbol_idx == td.initial_sequence[i]
            target_pos == map[symbol_idx]
            start_x == StartX(Len(td.symbols))
            initial_x == start_x + (i - 1) * SymbolSpacing
            target_x == start_x + target_pos * SymbolSpacing
        IN Glyph(td.symbols[symbol_idx + 1],
                 CurrentX(initial_x, target_x, frame_idx, trans),
                 GlyphY,
                 IF td.use_labels THEN Str(target_pos) ELSE NoLabel)]

TransitionFramesSkipLast(td, map, trans) ==
    [k \in 1..(trans - 1) |-> TransitionFrame(td, map, k - 1, trans)]

\* lines 432-461: for frame_idx in range(transition_frames)
TransitionFrames(td, map, trans) ==
    [k \in 1..trans |-> TransitionFrame(td, map, k - 1, trans)]

\* lines 423-424 and 465-466: for _ in range(hold_frames): append(img.copy())
HoldCopies(img, hold) == [k \in 1..hold |-> img]

CreateReorderingAnimationInitialTwice(td, hold, trans) ==
    HoldCopies(RenderState(td.initial_sequence, td), hold)
        \o TransitionFrames(td, SymbolToTargetPos(td.target_sequence), trans)
        \o HoldCopies(RenderState(td.initial_sequence, td), hold)

CreateReorderingAnimation(td, hold, trans) ==
    HoldCopies(RenderState(td.initial_sequence, td), hold)
        \o TransitionFrames(td, SymbolToTargetPos(td.target_sequence), trans)
        \o HoldCopies(RenderState(td.target_sequence, td), hold)

----------------------------------------------------------------------------
(* SpecAnim: _create_reordering_animation called on a generated task *)

InitAnim ==
    /\ pc = "animate"
    /\ task_data \in TaskDataOutcomes
    /\ hold_frames \in 0..MaxHold
    /\ transition_frames \in 0..MaxTrans
    /\ symbol_to_target_pos = <<>>
    /\ frames = <<>>
    /\ IdleGen
    /\ IdlePair

CreateAnimation ==
    /\ pc = "animate"
    /\ symbol_to_target_pos' = SymbolToTargetPos(task_data.target_sequence)
    /\ frames' = CreateReorderingAnimation(task_data, hold_frames,
                                           transition_frames)
    /\ pc' = "animated"
    /\ UNCHANGED <<task_data, hold_frames, transition_frames, genVars, pairVars>>

NextAnim == CreateAnimation

SpecAnim == InitAnim /\ [][NextAnim]_vars

----------------------------------------------------------------------------
(* SpecPair: __init__ (lines 31-41) and generate_task_pair (lines 64-90) *)

\* what create_video_from_frames does with the frames: it writes the file and
\* returns its path, or it fails and returns a failure indicator
VideoSinkOutcomes == {"written", "failed"}

NotCalled == "not called"

VideoFile == "ground_truth.mp4"

ShouldGenerateVideoUnchecked(enabled, generator) == enabled

\* line 76: self.config.generate_videos and self.video_generator
ShouldGenerateVideo(enabled, generator) ==
    enabled /\ generator # None

\* lines 381-394.  A call on a missing generator raises AttributeError at
\* line 391.
GenerateVideo(td, generator, outcome) ==
    LET anim == CreateReorderingAnimation(td, DefaultHoldFrames,
                                          DefaultTransitionFrames)
    IN IF Len(anim) > 0
       THEN IF generator = None
            THEN [raised |-> TRUE, sink |-> NotCalled, value |-> None]
            ELSE [raised |-> FALSE, sink |-> outcome,
                  value |-> IF outcome = "written" THEN VideoFile ELSE None]
       ELSE [raised |-> FALSE, sink |-> NotCalled, value |-> None]

InitPair ==
    /\ pc = "new"
    /\ generate_videos \in BOOLEAN
    /\ backend_available \in BOOLEAN
    /\ video_generator = None
    /\ sink_result = NotCalled
    /\ raised = FALSE
    /\ first_image = <<>>
    /\ final_image = <<>>
    /\ ground_truth_video = None
    /\ task_data = NoTaskData
    /\ IdleGen
    /\ IdleAnim

\* lines 35-38
Construct ==
    /\ pc = "new"
    /\ video_generator' =
        IF generate_videos /\ backend_available THEN "VideoGenerator" ELSE None
    /\ pc' = "constructed"
    /\ UNCHANGED <<task_data, generate_videos, backend_available, sink_result,
                   raised, first_image, final_image, ground_truth_video,
                   genVars, animVars>>

\* lines 64-90
GenerateTaskPair ==
    /\ pc = "constructed"
    /\ \E td \in TaskDataOutcomes, outcome \in VideoSinkOutcomes :
        \E video \in
            {IF ShouldGenerateVideo(generate_videos, video_generator)
             THEN GenerateVideo(td, video_generator, outcome)
             ELSE [raised |-> FALSE, sink |-> NotCalled, value |-> None]} :
           /\ task_data' = td
           /\ sink_result' = video.sink
           /\ raised' = video.raised
           /\ IF video.raised
              THEN /\ pc' = "pair_raised"
                   /\ UNCHANGED <<first_image, final_image, ground_truth_video>>
              ELSE /\ pc' = "pair_returned"
                   /\ first_image' = RenderState(td.initial_sequence, td)
                   /\ final_image' = RenderState(td.target_sequence, td)
                   /\ ground_truth_video' = video.value
    /\ UNCHANGED <<generate_videos, backend_available, video_generator,
                   genVars, animVars>>

NextPair ==
    \/ Construct
    \/ GenerateTaskPair

SpecPair == InitPair /\ [][NextPair]_vars

----------------------------------------------------------------------------
(* Claims about _generate_task_data, checked under Spec *)

IsPermutation(seq, n) ==
    /\ DOMAIN seq = 1..n
    /\ Range(seq) = 0..(n - 1)

\* every value returned is one of TaskDataOutcomes, the set SpecPair and
\* SpecAnim draw their task data from
ReturnsAreOutcomes ==
    pc = "returned" => task_data \in TaskDataOutcomes

\* C1: every record returned by _generate_task_data has num_symbols in 3..8,
\* the identity as initial_sequence, a permutation of 0..num_symbols-1 of the
\* same length as target_sequence, and target_sequence # initial_sequence;
\* also when all 100 shuffles returned the identity.
C1_TaskDataValid ==
    pc = "returned" =>
        /\ task_data.num_symbols \in 3..8
        /\ task_data.initial_sequence
             = [i \in 1..task_data.num_symbols |-> i - 1]
        /\ IsPermutation(task_data.target_sequence, task_data.num_symbols)
        /\ Len(task_data.target_sequence) = Len(task_data.initial_sequence)
        /\ task_data.target_sequence # task_data.initial_sequence

C1_Witness ==
    /\ pc = "returned"
    /\ forced_swap
    /\ attempts = 100
    /\ task_data.num_symbols = 8

\* C2: in every record returned, for each symbol type and cardinality,
\* len(symbols) = num_symbols = len(initial_sequence) = len(target_sequence)
\* and symbols holds no entry twice.
C2_SymbolsComplete ==
    pc = "returned" =>
        /\ task_data.symbol_type \in
             {"shapes", "letters", "numbers", "colors", "mixed"}
        /\ Len(task_data.symbols) = task_data.num_symbols
        /\ Len(task_data.initial_sequence) = task_data.num_symbols
        /\ Len(task_data.target_sequence) = task_data.num_symbols
        /\ NoDuplicates(task_data.symbols)

C2_Witness ==
    /\ pc = "returned"
    /\ task_data.symbol_type = "colors"
    /\ task_data.num_symbols = 8
    /\ Len(task_data.symbols) = 8

\* C6: when the loop ends after 100 shuffles with target_sequence still the
\* identity, the method returns the identity with entries 0 and 1 swapped and
\* every index i >= 2 still holding i; and the swap happens in no other case.
C6_ForcedSwap ==
    /\ [][(pc = "loop" /\ attempts = 100 /\ target_sequence = initial_sequence)
            => /\ pc' = "returned"
               /\ forced_swap'
               /\ task_data'.target_sequence =
                    [p \in 1..num_symbols |->
                        IF p = 1 THEN 1 ELSE IF p = 2 THEN 0 ELSE p - 1]]_vars
    /\ [](forced_swap =>
            /\ attempts = 100
            /\ task_data.target_sequence =
                 [p \in 1..task_data.num_symbols |->
                    IF p = 1 THEN 1 ELSE IF p = 2 THEN 0 ELSE p - 1])

C6_Witness ==
    /\ pc = "returned"
    /\ forced_swap
    /\ task_data.num_symbols = 3
    /\ task_data.target_sequence = <<1, 0, 2>>

\* C10: when symbol_type is mixed, every element of symbols is one of
\* A, B, C, 0, 1, 2, circle, square, triangle, at every cardinality.
C10_MixedPool ==
    (pc = "returned" /\ task_data.symbol_type = "mixed") =>
        Range(task_data.symbols) \subseteq
            {"A", "B", "C", "0", "1", "2", "circle", "square", "triangle"}

C10_Witness ==
    /\ pc = "returned"
    /\ task_data.symbol_type = "mixed"
    /\ task_data.num_symbols = 8
    /\ Len(task_data.symbols) = 8

\* C11: the loop performs at least 1 and at most 100 shuffles, no shuffle
\* follows one whose result differs from the identity, the forced swap is
\* applied only to a sequence that still equals the identity after the loop,
\* and the method returns whatever the shuffles produce.
C11_LoopTerminates ==
    /\ <>(pc = "returned")
    /\ [](pc = "returned" => (attempts >= 1 /\ attempts <= 100))
    /\ [](pc = "loop" => (attempts >= 0 /\ attempts <= 100))
    /\ [][(pc = "loop" /\ target_sequence # initial_sequence)
            => (pc' = "returned" /\ attempts' = attempts /\ ~forced_swap'
                /\ task_data'.target_sequence = target_sequence)]_vars
    /\ [][attempts' # attempts
            => (target_sequence = initial_sequence /\ attempts' = attempts + 1)]_vars
    /\ [][(forced_swap' /\ ~forced_swap)
            => (target_sequence = initial_sequence /\ attempts = 100)]_vars

C11_Witness ==
    /\ pc = "returned"
    /\ attempts = 100
    /\ ~forced_swap
    /\ task_data.target_sequence # task_data.initial_sequence

\* the other end of C11's range: one shuffle was enough
C11_OneShuffle ==
    pc = "returned" /\ attempts = 1

----------------------------------------------------------------------------
(* Claims about _create_reordering_animation, checked under SpecAnim *)

\* C3: the frame list returned has exactly 2*hold_frames + transition_frames
\* frames, for every hold_frames >= 0 and transition_frames >= 0.
C3_FrameCount ==
    pc = "animated" => Len(frames) = 2 * hold_frames + transition_frames

C3_Witness ==
    /\ pc = "animated"
    /\ hold_frames = 2
    /\ transition_frames = 1
    /\ Len(frames) = 5

\* C4: the list is hold_frames frames equal to the render of
\* initial_sequence, then the transition frames in increasing step order, then
\* hold_frames frames equal to the render of target_sequence.
C4_FrameOrder ==
    pc = "animated" =>
        \A i \in DOMAIN frames :
            /\ i <= hold_frames =>
                frames[i] = RenderState(task_data.initial_sequence, task_data)
            /\ (hold_frames < i /\ i <= hold_frames + transition_frames) =>
                frames[i] = TransitionFrame(task_data, symbol_to_target_pos,
                                            i - hold_frames - 1,
                                            transition_frames)
            /\ hold_frames + transition_frames < i =>
                frames[i] = RenderState(task_data.target_sequence, task_data)

C4_Witness ==
    /\ pc = "animated"
    /\ hold_frames = 2
    /\ transition_frames = 3
    /\ Len(frames) = 7
    /\ frames[2] # frames[6]
    /\ frames[3] # frames[4]

\* the slot of target_sequence that holds symbol index s
TargetSlotOf(s) ==
    CHOOSE p \in 0..(task_data.num_symbols - 1) :
        task_data.target_sequence[p + 1] = s

\* the x at which the frame draws symbol index s, as a set (one element when
\* the symbol is drawn once)
DrawnX(frame, s) ==
    {frame[i].x : i \in {j \in DOMAIN frame :
                            frame[j].symbol = task_data.symbols[s + 1]}}

\* C5: in the first transition frame when transition_frames > 1 every symbol
\* is drawn at start_x + initial_slot*spacing, and in the last transition
\* frame (the only one when transition_frames = 1) at
\* start_x + target_slot*spacing, also when start_x is negative.
C5_Endpoints ==
    pc = "animated" =>
        \A s \in 0..(task_data.num_symbols - 1) :
            /\ transition_frames > 1 =>
                DrawnX(frames[hold_frames + 1], s) =
                    {StartX(task_data.num_symbols) + s * SymbolSpacing}
            /\ transition_frames >= 1 =>
                DrawnX(frames[hold_frames + transition_frames], s) =
                    {StartX(task_data.num_symbols)
                        + TargetSlotOf(s) * SymbolSpacing}

C5_Witness ==
    /\ pc = "animated"
    /\ transition_frames = 1
    /\ task_data.num_symbols = 8
    /\ StartX(task_data.num_symbols) < 0
    /\ task_data.target_sequence[1] = 7
    /\ frames[hold_frames + 1][8].x = StartX(8)

\* C7: the symbol-to-target-slot map is the inverse of target_sequence: it is
\* defined on every symbol index, map[target_sequence[p]] = p for every slot p
\* and target_sequence[map[s]] = s for every symbol s; for [2,0,3,1] it is
\* {0->1, 1->3, 2->0, 3->2}.
C7_InverseMap ==
    pc = "animated" =>
        /\ DOMAIN symbol_to_target_pos = 0..(task_data.num_symbols - 1)
        /\ \A p \in 0..(task_data.num_symbols - 1) :
            symbol_to_target_pos[task_data.target_sequence[p + 1]] = p
        /\ \A s \in 0..(task_data.num_symbols - 1) :
            task_data.target_sequence[symbol_to_target_pos[s] + 1] = s
        /\ \A i \in DOMAIN task_data.initial_sequence :
            task_data.initial_sequence[i] \in DOMAIN symbol_to_target_pos
        /\ task_data.target_sequence = <<2, 0, 3, 1>> =>
            symbol_to_target_pos = (0 :> 1 @@ 1 :> 3 @@ 2 :> 0 @@ 3 :> 2)

C7_Witness ==
    /\ pc = "animated"
    /\ task_data.target_sequence = <<2, 0, 3, 1>>
    /\ symbol_to_target_pos[0] = 1
    /\ symbol_to_target_pos[1] = 3

\* the symbol index of the glyph: its place in symbols
SymbolIndexOf(glyph) ==
    CHOOSE s \in 0..(task_data.num_symbols - 1) :
        task_data.symbols[s + 1] = glyph.symbol

\* the decimal string of a slot index
SlotNumeral(p) == <<"0", "1", "2", "3", "4", "5", "6", "7">>[p + 1]

\* C12: with use_labels true, every transition frame, the one at progress 0
\* included, labels each symbol with the decimal string of its target slot,
\* and a static render labels slot p with p; with use_labels false no frame
\* carries a label.
C12_Labels ==
    pc = "animated" =>
        \A i \in DOMAIN frames : \A j \in DOMAIN frames[i] :
            /\ ~task_data.use_labels => frames[i][j].label = NoLabel
            /\ (/\ task_data.use_labels
                /\ hold_frames < i
                /\ i <= hold_frames + transition_frames) =>
                    frames[i][j].label =
                        SlotNumeral(TargetSlotOf(SymbolIndexOf(frames[i][j])))
            /\ (/\ task_data.use_labels
                /\ (i <= hold_frames \/ hold_frames + transition_frames < i)) =>
                    frames[i][j].label = SlotNumeral(j - 1)

C12_Witness ==
    /\ pc = "animated"
    /\ task_data.use_labels
    /\ hold_frames = 1
    /\ transition_frames = 3
    /\ task_data.target_sequence = <<2, 0, 3, 1>>
    /\ frames[1][1].label = "0"
    /\ frames[2][1].label = "1"
    /\ frames[2][1].x = frames[1][1].x
    /\ frames[2][1].symbol = frames[1][1].symbol

\* the other half of C12: a task without labels
C12_NoLabels ==
    /\ pc = "animated"
    /\ ~task_data.use_labels
    /\ Len(frames) = 7

\* whether every glyph of every frame lies in the canvas [0, 800] with its
\* 80 pixels of width
GlyphsInsideCanvas ==
    \A i \in DOMAIN frames : \A j \in DOMAIN frames[i] :
        /\ frames[i][j].x >= 0
        /\ frames[i][j].x + 80 <= 800

\* C13: with the default configuration (canvas 800x200, symbol_size 80,
\* symbol_spacing 120), for every cardinality in 3..8 every glyph's horizontal
\* extent lies inside the canvas, in static renders and in transition frames;
\* in particular start_x >= 0.
C13_InsideCanvas ==
    pc = "animated" =>
        /\ StartX(task_data.num_symbols) >= 0
        /\ GlyphsInsideCanvas

\* what the code does keep: the extents are inside the canvas up to 7 symbols
C13_InsideCanvasUpTo7 ==
    (pc = "animated" /\ task_data.num_symbols <= 7) =>
        /\ StartX(task_data.num_symbols) >= 0
        /\ GlyphsInsideCanvas

\* at 8 symbols the layout is 920 wide: slot 0 starts at -60 and slot 7 ends
\* at 860
C13_EightSymbols ==
    /\ pc = "animated"
    /\ task_data.num_symbols = 8
    /\ hold_frames = 1
    /\ frames[1][1].x = -60
    /\ frames[1][8].x + 80 = 860

----------------------------------------------------------------------------
(* Claims about generate_task_pair, checked under SpecPair *)

\* C8: generate_task_pair raises nothing on account of video: with video
\* generation disabled, the backend unavailable, or the sink failing, the pair
\* is returned with ground_truth_video None, and both images are produced.
C8_VideoNeverFatal ==
    /\ ~raised
    /\ pc # "pair_raised"
    /\ pc = "pair_returned" =>
        /\ Len(first_image) = task_data.num_symbols
        /\ Len(final_image) = task_data.num_symbols
        /\ (\/ ~generate_videos
            \/ ~backend_available
            \/ sink_result = "failed") => ground_truth_video = None

C8_Witness ==
    /\ pc = "pair_returned"
    /\ generate_videos
    /\ backend_available
    /\ sink_result = "failed"
    /\ ground_truth_video = None
    /\ Len(first_image) = 3
    /\ Len(final_image) = 3

\* the three cases of C8, one by one
C8_DisabledCase ==
    pc = "pair_returned" /\ ~generate_videos /\ backend_available

C8_UnavailableCase ==
    pc = "pair_returned" /\ generate_videos /\ ~backend_available

\* C9: a render draws at slot p, at x = start_x + p*spacing, the symbol
\* symbols[sequence[p]], so the renders of initial_sequence and of
\* target_sequence draw different symbols at some slot; for circle, square,
\* triangle, diamond and target [2,0,3,1] the target render shows triangle,
\* circle, diamond, square.
C9_RendersDiffer ==
    pc = "pair_returned" =>
        /\ \A p \in 0..(task_data.num_symbols - 1) :
            /\ first_image[p + 1].x
                 = StartX(task_data.num_symbols) + p * SymbolSpacing
            /\ final_image[p + 1].x
                 = StartX(task_data.num_symbols) + p * SymbolSpacing
            /\ first_image[p + 1].symbol
                 = task_data.symbols[task_data.initial_sequence[p + 1] + 1]
            /\ final_image[p + 1].symbol
                 = task_data.symbols[task_data.target_sequence[p + 1] + 1]
        /\ \E p \in 0..(task_data.num_symbols - 1) :
            /\ first_image[p + 1].x = final_image[p + 1].x
            /\ first_image[p + 1].symbol # final_image[p + 1].symbol
        /\ (/\ task_data.symbols = <<"circle", "square", "triangle", "diamond">>
            /\ task_data.target_sequence = <<2, 0, 3, 1>>) =>
                [p \in 1..4 |-> final_image[p].symbol]
                    = <<"triangle", "circle", "diamond", "square">>

C9_Witness ==
    /\ pc = "pair_returned"
    /\ task_data.symbols = <<"circle", "square", "triangle", "diamond">>
    /\ task_data.target_sequence = <<2, 0, 3, 1>>
    /\ final_image[1].symbol = "triangle"
    /\ first_image[1].symbol = "circle"

====
